---- MODULE Spec2Model ----
(***************************************************************************)
(* HTML image inliner (4_html_processing/html_pipeline.py).               *)
(*                                                                         *)
(* A Python str is modelled as a sequence of one-character strings, so     *)
(* that strip / lower / split / startswith / slicing are computed on the   *)
(* characters as the code computes them.                                   *)
(***************************************************************************)
EXTENDS Integers, Sequences, FiniteSets, TLC

VARIABLES
    fs,            \* the filesystem: absolute path (sequence of names) -> [kind, data]
    report,        \* ProcessingReport.data: [success, fail]
    html_files,    \* main: the batch, a sequence of document paths
    idx,           \* main: index of the document of the current loop iteration
    pc,            \* position inside process_file / main
    fed,           \* lexical events the parser has delivered for the current document
    output_parts,  \* HTMLImageInliner.output_parts of the current parser
    emitted,       \* per output part, the attribute list handed to _rebuild_tag
    fs_access,     \* filesystem calls made by the img handler: set of <<operation, path string>>
    results,       \* main: per processed document, the value process_file returned
    np, nq, nf,    \* inputs of the path-classifier specification
    cleaned        \* clean_path results of the path-classifier specification

vars == <<fs, report, html_files, idx, pc, fed, output_parts, emitted, fs_access,
          results, np, nq, nf, cleaned>>

-----------------------------------------------------------------------------
(* Python str primitives *)

UpperCase == <<"A","B","C","D","E","F","G","H","I","J","K","L","M",
               "N","O","P","Q","R","S","T","U","V","W","X","Y","Z">>

LowerCase == <<"a","b","c","d","e","f","g","h","i","j","k","l","m",
               "n","o","p","q","r","s","t","u","v","w","x","y","z">>

\* the characters str.strip() removes (ASCII part of str.isspace)
Whitespace == {" ", "\t", "\n", "\r"}

\* the lower-case letter of each upper-case letter
ToLower == [c \in {UpperCase[i] : i \in 1..26} |->
               LowerCase[CHOOSE i \in 1..26 : UpperCase[i] = c]]

LowerChar(c) == IF c \in DOMAIN ToLower THEN ToLower[c] ELSE c

\* str.lower()
lower(s) == [i \in 1..Len(s) |-> LowerChar(s[i])]

\* str.lstrip() / str.rstrip() / str.strip()
lstrip(s) ==
    IF \A i \in 1..Len(s) : s[i] \in Whitespace
    THEN <<>>
    ELSE SubSeq(s, CHOOSE i \in 1..Len(s) :
                       /\ s[i] \notin Whitespace
                       /\ \A j \in 1..(i-1) : s[j] \in Whitespace, Len(s))

rstrip(s) ==
    IF \A i \in 1..Len(s) : s[i] \in Whitespace
    THEN <<>>
    ELSE SubSeq(s, 1, CHOOSE i \in 1..Len(s) :
                          /\ s[i] \notin Whitespace
                          /\ \A j \in (i+1)..Len(s) : s[j] \in Whitespace)

strip(s) == rstrip(lstrip(s))

\* str.startswith(prefix)
startswith(s, prefix) ==
    /\ Len(s) >= Len(prefix)
    /\ SubSeq(s, 1, Len(prefix)) = prefix

\* s.split(c)[0]: the text before the first occurrence of c (all of s without one)
SplitFirst(s, c) ==
    IF \E i \in 1..Len(s) : s[i] = c
    THEN SubSeq(s, 1, (CHOOSE i \in 1..Len(s) :
                           /\ s[i] = c
                           /\ \A j \in 1..(i-1) : s[j] # c) - 1)
    ELSE s

\* s[n:]
SliceFrom(s, n) == SubSeq(s, n + 1, Len(s))

RECURSIVE Concat(_)
\* ''.join(parts)
Concat(parts) ==
    IF parts = <<>> THEN <<>> ELSE Head(parts) \o Concat(Tail(parts))

-----------------------------------------------------------------------------
(* ImageProcessor: the path classifier *)

s_http   == <<"h","t","t","p",":","/","/">>
s_https  == <<"h","t","t","p","s",":","/","/">>
s_data   == <<"d","a","t","a",":">>
s_file   == <<"f","i","l","e",":","/","/">>

\* is_remote_url that knows http:// alone
is_remote_url_http_only(src) == startswith(lower(strip(src)), s_http)

is_remote_url(src) ==
    LET normalized == lower(strip(src))
    IN  startswith(normalized, s_http) \/ startswith(normalized, s_https)

\* is_data_uri that compares without lower()
is_data_uri_case_sensitive(src) == startswith(strip(src), s_data)

is_data_uri(src) == startswith(lower(strip(src)), s_data)

FilePrefixLen == 7

clean_path(src) ==
    LET stripped == strip(src)
        nofrag   == SplitFirst(stripped, "#")
        noquery  == SplitFirst(nofrag, "?")
    IN  IF startswith(lower(noquery), s_file)
        THEN SliceFrom(noquery, FilePrefixLen)
        ELSE noquery

-----------------------------------------------------------------------------
(* pathlib.Path on a POSIX system.  A path is [abs, parts]: whether it is   *)
(* rooted, and its names.  Parsing drops empty names and "." names and      *)
(* keeps ".." names, as PurePosixPath does.                                 *)

RECURSIVE SplitAll(_, _)
\* s.split(c)
SplitAll(s, c) ==
    IF \E i \in 1..Len(s) : s[i] = c
    THEN LET first == SplitFirst(s, c)
         IN  <<first>> \o SplitAll(SliceFrom(s, Len(first) + 1), c)
    ELSE <<s>>

RECURSIVE Join(_, _)
\* sep.join(names)
Join(names, sep) ==
    IF names = <<>> THEN <<>>
    ELSE IF Len(names) = 1 THEN names[1]
    ELSE names[1] \o sep \o Join(Tail(names), sep)

s_dot    == <<".">>
s_dotdot == <<".",".">>

\* Path(text)
Path(text) ==
    [abs   |-> startswith(text, <<"/">>),
     parts |-> SelectSeq(SplitAll(text, "/"), LAMBDA n : n # <<>> /\ n # s_dot)]

\* str(path)
PathStr(p) ==
    IF p.abs THEN <<"/">> \o Join(p.parts, <<"/">>)
    ELSE IF p.parts = <<>> THEN s_dot
    ELSE Join(p.parts, <<"/">>)

\* base / other
JoinPath(base, other) ==
    IF other.abs THEN other
    ELSE [abs |-> base.abs, parts |-> base.parts \o other.parts]

\* path.parent
Parent(p) ==
    IF p.parts = <<>> THEN p
    ELSE [abs |-> p.abs, parts |-> SubSeq(p.parts, 1, Len(p.parts) - 1)]

RECURSIVE Collapse(_, _)
\* names with every ".." applied to the names before it (".." of the root is the root)
Collapse(done, names) ==
    IF names = <<>> THEN done
    ELSE IF Head(names) = s_dotdot
         THEN Collapse(IF done = <<>> THEN done
                       ELSE SubSeq(done, 1, Len(done) - 1), Tail(names))
         ELSE Collapse(Append(done, Head(names)), Tail(names))

\* path.resolve() of an absolute path, no symbolic links in the filesystem
Resolve(p) == [abs |-> TRUE, parts |-> Collapse(<<>>, p.parts)]

\* the last "." of a name that is neither its first nor its last character, or 0
SuffixAt(name) ==
    LET dots == {i \in 2..(Len(name) - 1) : name[i] = "."}
    IN  IF dots = {} THEN 0 ELSE CHOOSE i \in dots : \A j \in dots : j <= i

\* path.name, path.suffix, path.stem
Name(p)   == IF p.parts = <<>> THEN <<>> ELSE p.parts[Len(p.parts)]
Suffix(p) == IF SuffixAt(Name(p)) = 0 THEN <<>>
             ELSE SubSeq(Name(p), SuffixAt(Name(p)), Len(Name(p)))
Stem(p)   == IF SuffixAt(Name(p)) = 0 THEN Name(p)
             ELSE SubSeq(Name(p), 1, SuffixAt(Name(p)) - 1)

-----------------------------------------------------------------------------
(* The filesystem: a function from the absolute, collapsed names of the     *)
(* entries that exist to [kind, data].  Kinds: "file" a readable regular    *)
(* file, "locked" a regular file whose read raises PermissionError, "dir" a *)
(* directory, "noaccess" a directory without search permission (stat of     *)
(* anything below it raises PermissionError, which Path.exists() does not   *)
(* swallow), "readonly" a directory in which no file can be created.        *)

DirKinds  == {"dir", "readonly"}
FileKinds == {"file", "locked"}

RECURSIVE Walk(_, _, _)
\* the directory walk of stat() on an absolute path: [st, at], st "ok" with the
\* names of the entry reached, or the errno that stopped the walk
Walk(f, cur, names) ==
    IF names = <<>> THEN [st |-> "ok", at |-> cur]
    ELSE IF cur # <<>> /\ cur \notin DOMAIN f THEN [st |-> "ENOENT", at |-> cur]
    ELSE IF cur # <<>> /\ f[cur].kind = "noaccess" THEN [st |-> "EACCES", at |-> cur]
    ELSE IF cur # <<>> /\ f[cur].kind \notin DirKinds THEN [st |-> "ENOTDIR", at |-> cur]
    ELSE IF Head(names) = s_dotdot
         THEN Walk(f, IF cur = <<>> THEN cur ELSE SubSeq(cur, 1, Len(cur) - 1),
                   Tail(names))
         ELSE Walk(f, Append(cur, Head(names)), Tail(names))

\* stat(path): the kind of the entry, or the errno
Stat(f, p) ==
    LET w == Walk(f, <<>>, p.parts)
    IN  IF w.st # "ok" THEN w.st
        ELSE IF w.at = <<>> THEN "dir"
        ELSE IF w.at \in DOMAIN f THEN f[w.at].kind
        ELSE "ENOENT"

\* whether path.exists() / path.is_file() raise, and their values when they do not
StatRaises(f, p) == Stat(f, p) = "EACCES"
exists(f, p)     == \E w \in {Walk(f, <<>>, p.parts)} :
                        w.st = "ok" /\ (w.at = <<>> \/ w.at \in DOMAIN f)
is_file(f, p)    == Stat(f, p) \in FileKinds

\* the entry a path names (for a path that exists)
Entry(f, p) == f[Walk(f, <<>>, p.parts).at]

-----------------------------------------------------------------------------
(* ImageProcessor: the image loader *)

\* the printable ASCII characters 32..95 and 97..126 in code order
AsciiLow  == <<" ","!","\"","#","$","%","&","'","(",")","*","+",",","-",".","/",
             "0","1","2","3","4","5","6","7","8","9",":",";","<","=",">","?",
             "@","A","B","C","D","E","F","G","H","I","J","K","L","M","N","O",
             "P","Q","R","S","T","U","V","W","X","Y","Z","[","\\","]","^","_">>

AsciiHigh == <<"a","b","c","d","e","f","g","h","i","j","k","l","m","n","o","p",
             "q","r","s","t","u","v","w","x","y","z","{","|","}","~">>

\* ord(c) of the ASCII characters of the model
CodePoint ==
    [c \in {AsciiLow[i] : i \in 1..Len(AsciiLow)} |->
        31 + CHOOSE i \in 1..Len(AsciiLow) : AsciiLow[i] = c] @@
    [c \in {AsciiHigh[i] : i \in 1..Len(AsciiHigh)} |->
        96 + CHOOSE i \in 1..Len(AsciiHigh) : AsciiHigh[i] = c] @@
    [c \in {"\t"} |-> 9] @@ [c \in {"\n"} |-> 10] @@ [c \in {"\r"} |-> 13]

Ord(c) == CodePoint[c]

\* text.encode('utf-8') of ASCII text
Utf8(text) == [i \in 1..Len(text) |-> Ord(text[i])]

B64Alphabet == <<"A","B","C","D","E","F","G","H","I","J","K","L","M","N","O","P",
               "Q","R","S","T","U","V","W","X","Y","Z","a","b","c","d","e","f",
               "g","h","i","j","k","l","m","n","o","p","q","r","s","t","u","v",
               "w","x","y","z","0","1","2","3","4","5","6","7","8","9","+","/">>

B64(n) == B64Alphabet[n + 1]

RECURSIVE b64encode(_)
\* base64.b64encode(raw_data).decode('ascii')
b64encode(raw) ==
    IF Len(raw) = 0 THEN <<>>
    ELSE IF Len(raw) = 1
         THEN <<B64(raw[1] \div 4), B64((raw[1] % 4) * 16), "=", "=">>
    ELSE IF Len(raw) = 2
         THEN <<B64(raw[1] \div 4),
                B64((raw[1] % 4) * 16 + raw[2] \div 16),
                B64((raw[2] % 16) * 4), "=">>
    ELSE <<B64(raw[1] \div 4),
           B64((raw[1] % 4) * 16 + raw[2] \div 16),
           B64((raw[2] % 16) * 4 + raw[3] \div 64),
           B64(raw[3] % 64)>> \o b64encode(SubSeq(raw, 4, Len(raw)))

s_svg  == <<".","s","v","g">>
s_png  == <<".","p","n","g">>
s_html == <<".","h","t","m","l">>
s_htm  == <<".","h","t","m">>

mime_svg   == <<"i","m","a","g","e","/","s","v","g","+","x","m","l">>
mime_png   == <<"i","m","a","g","e","/","p","n","g">>
mime_html  == <<"t","e","x","t","/","h","t","m","l">>
mime_octet == <<"a","p","p","l","i","c","a","t","i","o","n","/",
                "o","c","t","e","t","-","s","t","r","e","a","m">>

\* mimetypes.guess_type(path)[0] or 'application/octet-stream', for the
\* extensions the model's files carry (the table lookup ignores case)
get_mime_type(p) ==
    LET ext == lower(Suffix(p))
    IN  IF ext = s_svg THEN mime_svg
        ELSE IF ext = s_png THEN mime_png
        ELSE IF ext \in {s_html, s_htm} THEN mime_html
        ELSE mime_octet

s_base64 == <<";","b","a","s","e","6","4",",">>

\* whether file_path.read_bytes() raises
ReadRaises(f, p) == Stat(f, p) # "file"

\* encode_to_data_uri of a readable regular file
encode_to_data_uri(f, p) ==
    s_data \o get_mime_type(p) \o s_base64 \o b64encode(Entry(f, p).data)

-----------------------------------------------------------------------------
(* ProcessingReport.  data["success"] maps a document key to the list of    *)
(* references logged, data["fail"] maps a document key to a dict from       *)
(* reference to reason; a dict is a function whose DOMAIN is its key set.   *)
(* A reason is [msg, detail]: the literal text of the f-string and the      *)
(* characters formatted into it.                                            *)

EmptyDict == [k \in {} |-> <<>>]

\* data, and calls: the calls of log_success and log_failure so far, in order
\* (a history kept beside data, which does not tell an entry written twice)
EmptyReport == [success |-> EmptyDict, fail |-> EmptyDict, calls |-> <<>>]

Call(method, html_file, image_src) ==
    [method |-> method, doc |-> PathStr(html_file), ref |-> image_src]

\* d[key] = value
DictSet(d, key, value) ==
    [k \in DOMAIN d \cup {key} |-> IF k = key THEN value ELSE d[k]]

Reason(msg, detail) == [msg |-> msg, detail |-> detail]

\* data[kind] with an entry for key (initial when there was none)
WithKey(d, key, initial) ==
    IF key \notin DOMAIN d THEN DictSet(d, key, initial) ELSE d

AppendAt(d, key, item) == DictSet(d, key, Append(d[key], item))

StoreAt(d, key, inner, value) == DictSet(d, key, DictSet(d[key], inner, value))

\* log_success that records the normalized path
log_success_normalized(r, html_file, image_src) ==
    [r EXCEPT !.success =
        AppendAt(WithKey(r.success, PathStr(html_file), <<>>),
                 PathStr(html_file), clean_path(image_src)),
              !.calls = Append(@, Call("log_success", html_file, image_src))]

log_success(r, html_file, image_src) ==
    [r EXCEPT !.success =
        AppendAt(WithKey(r.success, PathStr(html_file), <<>>),
                 PathStr(html_file), image_src),
              !.calls = Append(@, Call("log_success", html_file, image_src))]

log_failure(r, html_file, image_src, reason) ==
    [r EXCEPT !.fail =
        StoreAt(WithKey(r.fail, PathStr(html_file), EmptyDict),
                PathStr(html_file), image_src, reason),
              !.calls = Append(@, Call("log_failure", html_file, image_src))]

-----------------------------------------------------------------------------
(* HTMLImageInliner.  A lexical event is [kind, tag, attrs, text]; an        *)
(* attribute is [k, hasv, v], hasv FALSE for an attribute without a value    *)
(* (Python None; v is then the empty string).                               *)

s_amp  == <<"&","a","m","p",";">>
s_lt   == <<"&","l","t",";">>
s_gt   == <<"&","g","t",";">>
s_quot == <<"&","q","u","o","t",";">>
s_apos == <<"&","#","x","2","7",";">>

EscapeChar(c) ==
    IF c = "&" THEN s_amp
    ELSE IF c = "<" THEN s_lt
    ELSE IF c = ">" THEN s_gt
    ELSE IF c = "\"" THEN s_quot
    ELSE IF c = "'" THEN s_apos
    ELSE <<c>>

\* html.escape(value, quote=True)
escape(value) == Concat([i \in 1..Len(value) |-> EscapeChar(value[i])])

\* one attribute as _rebuild_tag appends it
RebuildAttr(a) ==
    IF ~a.hasv THEN <<" ">> \o a.k
    ELSE <<" ">> \o a.k \o <<"=", "\"">> \o escape(a.v) \o <<"\"">>

_rebuild_tag(tag, attrs, self_closing) ==
    <<"<">> \o tag
        \o Concat([i \in 1..Len(attrs) |-> RebuildAttr(attrs[i])])
        \o (IF self_closing THEN <<" ", "/", ">">> ELSE <<">">>)

s_src == <<"s","r","c">>
s_img == <<"i","m","g">>

\* {k: (v or '') for k, v in attrs}.get('src', ''): the last src attribute decides
AttrsSrc(attrs) ==
    LET at == {i \in 1..Len(attrs) : attrs[i].k = s_src}
    IN  IF at = {} THEN <<>>
        ELSE attrs[CHOOSE i \in at : \A j \in at : j <= i].v

\* the list comprehension with (v or '') for the other attributes
ReplaceSrc_or_empty(attrs, data_uri) ==
    [i \in 1..Len(attrs) |->
        [k |-> attrs[i].k, hasv |-> TRUE,
         v |-> IF lower(attrs[i].k) = s_src THEN data_uri ELSE attrs[i].v]]

\* [(k, data_uri if k.lower() == 'src' else v) for k, v in attrs]
ReplaceSrc(attrs, data_uri) ==
    [i \in 1..Len(attrs) |->
        IF lower(attrs[i].k) = s_src
        THEN [k |-> attrs[i].k, hasv |-> TRUE, v |-> data_uri]
        ELSE attrs[i]]

s_empty_ref == <<"(","e","m","p","t","y",")">>

\* image_path never joined with the base directory
ResolveImage_unjoined(html_file, image_path) == image_path

\* image_path after "Resolve relative paths"
ResolveImage(html_file, image_path) ==
    IF ~image_path.abs
    THEN Resolve(JoinPath(Parent(html_file), image_path))
    ELSE image_path

\* the path _inline_local_image checks and reads
ImagePath(html_file, src) == ResolveImage(html_file, Path(clean_path(src)))

\* str(e) of the PermissionError a stat or a read of the path named where raises
PermissionDenied(where) ==
    Reason("[Errno 13] Permission denied: ", <<"'">> \o where \o <<"'">>)

\* what _inline_local_image hands back: ret is "uri" (a data URI is returned),
\* "none" (None is returned) or "raise" (the exception exc propagates)
Outcome(ret, uri, rep, access, exc) ==
    [ret |-> ret, uri |-> uri, report |-> rep, access |-> access, exc |-> exc]

NoExc == Reason("", <<>>)

\* _inline_local_image from "Check if file exists" on; where is str(image_path)
LoadImage(f, r, html_file, src, image_path, where) ==
    IF StatRaises(f, image_path)
    THEN Outcome("raise", <<>>, r, {<<"stat", where>>}, PermissionDenied(where))
    ELSE IF ~exists(f, image_path) \/ ~is_file(f, image_path)
    THEN Outcome("none", <<>>,
                 log_failure(r, html_file, src, Reason("File not found: ", where)),
                 {<<"stat", where>>}, NoExc)
    ELSE IF ReadRaises(f, image_path)
    THEN Outcome("none", <<>>,
                 log_failure(r, html_file, src,
                     Reason("Encoding failed: [Errno 13] Permission denied: ",
                            PermissionDenied(where).detail)),
                 {<<"stat", where>>, <<"read", where>>}, NoExc)
    ELSE Outcome("uri", encode_to_data_uri(f, image_path), r,
                 {<<"stat", where>>, <<"read", where>>}, NoExc)

InlineAt(f, r, html_file, src, image_path) ==
    LoadImage(f, r, html_file, src, image_path, PathStr(image_path))

_inline_local_image(f, r, html_file, src) ==
    InlineAt(f, r, html_file, src, ImagePath(html_file, src))

\* what _process_img_tag hands back: the tag text returned, the report and the
\* filesystem calls after the call, and the attribute list handed to _rebuild_tag
Rebuilt(tag, attrs, self_closing, rep, access) ==
    [text |-> _rebuild_tag(tag, attrs, self_closing), report |-> rep,
     access |-> access, emitted |-> attrs]

\* _process_img_tag whose except clause logs nothing
AfterInline_silent(html_file, tag, attrs, self_closing, src, got) ==
    IF got.ret = "uri" /\ got.uri # <<>>
    THEN Rebuilt(tag, ReplaceSrc(attrs, got.uri), self_closing,
                 log_success(got.report, html_file, src), got.access)
    ELSE Rebuilt(tag, attrs, self_closing, got.report, got.access)

\* _process_img_tag that logs a failure of its own when no data URI came back
AfterInline_logs_again(html_file, tag, attrs, self_closing, src, got) ==
    IF got.ret = "raise"
    THEN Rebuilt(tag, attrs, self_closing,
                 log_failure(got.report, html_file, src,
                             Reason("Unexpected error: " \o got.exc.msg, got.exc.detail)),
                 got.access)
    ELSE IF got.ret = "uri" /\ got.uri # <<>>
    THEN Rebuilt(tag, ReplaceSrc(attrs, got.uri), self_closing,
                 log_success(got.report, html_file, src), got.access)
    ELSE Rebuilt(tag, attrs, self_closing,
                 log_failure(got.report, html_file, src, Reason("Not inlined", <<>>)),
                 got.access)

\* _process_img_tag after _inline_local_image handed back got
AfterInline(html_file, tag, attrs, self_closing, src, got) ==
    IF got.ret = "raise"
    THEN Rebuilt(tag, attrs, self_closing,
                 log_failure(got.report, html_file, src,
                             Reason("Unexpected error: " \o got.exc.msg, got.exc.detail)),
                 got.access)
    ELSE IF got.ret = "uri" /\ got.uri # <<>>
    THEN Rebuilt(tag, ReplaceSrc(attrs, got.uri), self_closing,
                 log_success(got.report, html_file, src), got.access)
    ELSE Rebuilt(tag, attrs, self_closing, got.report, got.access)

\* _process_img_tag once src is extracted and trimmed
ProcessSrc(f, r, html_file, tag, attrs, self_closing, src) ==
    IF src = <<>>
    THEN Rebuilt(tag, attrs, self_closing,
                 log_failure(r, html_file, s_empty_ref,
                             Reason("Image tag has no src attribute", <<>>)), {})
    ELSE IF is_data_uri(src)
    THEN Rebuilt(tag, attrs, self_closing, r, {})
    ELSE IF is_remote_url(src)
    THEN Rebuilt(tag, attrs, self_closing,
                 log_failure(r, html_file, src,
                             Reason("Remote URLs cannot be inlined", <<>>)), {})
    ELSE AfterInline(html_file, tag, attrs, self_closing, src,
                     _inline_local_image(f, r, html_file, src))

_process_img_tag(f, r, html_file, tag, attrs, self_closing) ==
    ProcessSrc(f, r, html_file, tag, attrs, self_closing, strip(AttrsSrc(attrs)))

-----------------------------------------------------------------------------
(* OutputFileManager *)

RECURSIVE Digits(_)
\* str(i) of a natural number
Digits(i) ==
    IF i < 10 THEN <<AsciiLow[17 + i]>>
    ELSE Digits(i \div 10) \o <<AsciiLow[17 + (i % 10)]>>

s_ok == <<"_","o","k">>

\* the first numerical suffix tried and the end of range(2, 1000)
FirstSuffix == 2
RangeStop   == 1000

\* output_dir / (base_name + suffix) and output_dir / f"{base_name}_{i}{suffix}"
CandidateIn(output_dir, base_name, suffix, i) ==
    JoinPath(output_dir,
             [abs |-> FALSE,
              parts |-> << base_name \o (IF i = 1 THEN <<>> ELSE <<"_">> \o Digits(i))
                                     \o suffix >>])

\* candidate i of input_file: 1 is the base name, 2..999 carry their number
Candidate(input_file, i) ==
    CandidateIn(Parent(input_file), Stem(input_file) \o s_ok, Suffix(input_file), i)

NoPath == [abs |-> FALSE, parts |-> <<>>]

\* whether candidate.exists()
Taken(f, output_dir, base_name, suffix, i) ==
    \E candidate \in {CandidateIn(output_dir, base_name, suffix, i)} : exists(f, candidate)

\* what get_output_path hands back: the path, or raised; checks is the number
\* of candidate.exists() calls it made
Found(path, checks) == [raised |-> FALSE, path |-> path, checks |-> checks]
Exhausted(checks)   == [raised |-> TRUE, path |-> NoPath, checks |-> checks]

\* the first i from first on, below stop, whose candidate does not exist
FirstFreeSuffix(f, output_dir, base_name, suffix, first, stop) ==
    CHOOSE i \in first..(stop - 1) :
        /\ ~Taken(f, output_dir, base_name, suffix, i)
        /\ \A j \in first..(i - 1) : Taken(f, output_dir, base_name, suffix, j)

\* the loop over range(2, 1001)
NextFree_one_more(f, output_dir, base_name, suffix) ==
    IF \E i \in FirstSuffix..RangeStop : ~Taken(f, output_dir, base_name, suffix, i)
    THEN \* found at suffix i: the base name and the suffixes 2..i were checked
         LET i == FirstFreeSuffix(f, output_dir, base_name, suffix, FirstSuffix, RangeStop + 1)
         IN  Found(CandidateIn(output_dir, base_name, suffix, i), i)
    ELSE Exhausted(RangeStop)

\* the loop over range(2, 1000): it returns at the first suffix whose candidate
\* does not exist and raises after the last one
NextFree(f, output_dir, base_name, suffix) ==
    IF \E i \in FirstSuffix..(RangeStop - 1) : ~Taken(f, output_dir, base_name, suffix, i)
    THEN \* found at suffix i: the base name and the suffixes 2..i were checked
         LET i == FirstFreeSuffix(f, output_dir, base_name, suffix, FirstSuffix, RangeStop)
         IN  Found(CandidateIn(output_dir, base_name, suffix, i), i)
    ELSE Exhausted(RangeStop - 1)

\* "Try base name first", then the loop
FirstFree(f, output_dir, base_name, suffix) ==
    IF ~Taken(f, output_dir, base_name, suffix, 1)
    THEN Found(CandidateIn(output_dir, base_name, suffix, 1), 1)
    ELSE NextFree(f, output_dir, base_name, suffix)

\* get_output_path without candidate.exists(): the base name, whatever is there
get_output_path_unchecked(f, input_file) ==
    Found(CandidateIn(Parent(input_file), Stem(input_file) \o s_ok, Suffix(input_file), 1), 1)

\* get_output_path without "Try base name first"
get_output_path_numbered_only(f, input_file) ==
    CHOOSE out \in {NextFree(f, output_dir, base_name, suffix) :
                       output_dir \in {Parent(input_file)},
                       base_name \in {Stem(input_file) \o s_ok},
                       suffix \in {Suffix(input_file)}} : TRUE

\* get_output_path: [raised, path, checks]; it raises when every candidate exists.
\* output_dir, base_name and the suffix are computed once, before the loop
get_output_path(f, input_file) ==
    CHOOSE out \in {FirstFree(f, output_dir, base_name, suffix) :
                       output_dir \in {Parent(input_file)},
                       base_name \in {Stem(input_file) \o s_ok},
                       suffix \in {Suffix(input_file)}} : TRUE

-----------------------------------------------------------------------------
(* The files and the lexical events of the model *)

Str(kind, data) == [kind |-> kind, data |-> data]

n_d      == <<"d">>
n_n      == <<"n">>
n_a      == <<"a">>
n_x      == <<"x">>
n_p_html == <<"p",".","h","t","m","l">>
n_pok    == <<"p","_","o","k",".","h","t","m","l">>
n_q_htm  == <<"q",".","h","t","m">>
n_r_svg  == <<"r",".","s","v","g">>
n_u_png  == <<"u",".","p","n","g">>

Doc1 == [abs |-> TRUE, parts |-> <<n_d, n_p_html>>]
Doc2 == [abs |-> TRUE, parts |-> <<n_d, n_pok>>]
Doc3 == [abs |-> TRUE, parts |-> <<n_d, n_n, n_q_htm>>]

\* /d holds the document p.html, the images r.svg, "(empty)" (an empty file)
\* and u.png (unreadable), the directory a and the directory x (not
\* searchable); /d/n holds the document q.htm
BaseFS ==
    (<<n_d>> :> Str("dir", <<>>)) @@
    (<<n_d, n_p_html>> :> Str("file", <<>>)) @@
    (<<n_d, n_n>> :> Str("dir", <<>>)) @@
    (<<n_d, n_n, n_q_htm>> :> Str("file", <<>>)) @@
    (<<n_d, n_r_svg>> :> Str("file", <<60, 115>>)) @@
    (<<n_d, s_empty_ref>> :> Str("file", <<>>)) @@
    (<<n_d, n_u_png>> :> Str("locked", <<>>)) @@
    (<<n_d, n_a>> :> Str("dir", <<>>)) @@
    (<<n_d, n_x>> :> Str("noaccess", <<>>))

\* BaseFS with the document p_ok.html beside p.html
BatchFS == (<<n_d, n_pok>> :> Str("file", <<>>)) @@ BaseFS

\* f with the entry at path given another kind
WithKind(f, path, kind) == [f EXCEPT ![path.parts].kind = kind]

\* f with the first n output candidates of input_file existing
WithCandidates(f, input_file, n) ==
    [q \in {Candidate(input_file, i).parts : i \in 1..n} |-> Str("file", <<>>)] @@ f

Attr(k, v) == [k |-> k, hasv |-> TRUE, v |-> v]
Bare(k)    == [k |-> k, hasv |-> FALSE, v |-> <<>>]

Tag(kind, tag, attrs) == [kind |-> kind, tag |-> tag, attrs |-> attrs, text |-> <<>>]
Text(kind, text)      == [kind |-> kind, tag |-> <<>>, attrs |-> <<>>, text |-> text]

s_alt == <<"a","l","t">>

v_local   == <<"r",".","s","v","g">>
v_query   == <<" ","r",".","s","v","g","?","v","=","1","#","f"," ">>
v_fileabs == <<"F","i","l","e",":","/","/","/","d","/","r",".","s","v","g">>
v_parent  == <<".",".","/","r",".","s","v","g">>
v_missing == <<"m",".","p","n","g">>
v_padmiss == <<" ","m",".","p","n","g","#","f">>
v_locked  == <<"u",".","p","n","g">>
v_noacc   == <<"x","/","i",".","p","n","g">>
v_dir     == <<"a">>
v_remote  == <<"h","t","t","p","s",":","/","/","h","/","i">>
v_padrem  == <<" ","H","T","T","P",":","/","/","h"," ">>
v_data    == <<" ","D","a","t","a",":",",","x">>
v_blank   == <<" ">>
v_filewrite == <<"(","f","i","l","e"," ","w","r","i","t","e",")">>

\* the attribute lists of the img events
ImgAttrs ==
    { <<Attr(s_alt, <<"x">>)>>,
      <<Bare(s_src), Attr(s_alt, v_blank)>>,
      <<Attr(s_src, v_blank)>>,
      <<Attr(s_src, v_data), Attr(s_alt, <<"a","&","b">>)>>,
      <<Attr(s_src, v_remote)>>,
      <<Attr(s_alt, <<"\"">>), Attr(s_src, v_padrem)>>,
      <<Attr(s_src, v_local)>>,
      <<Attr(s_alt, <<"a","<","b">>), Bare(<<"h">>), Attr(s_src, v_query),
        Attr(<<"i","d">>, <<"'">>)>>,
      <<Attr(s_src, v_missing), Attr(s_src, v_fileabs)>>,
      <<Attr(s_src, v_missing)>>,
      <<Attr(s_src, v_filewrite)>>,
      <<Attr(s_src, v_padmiss), Bare(s_alt)>>,
      <<Attr(s_src, v_locked)>>,
      <<Attr(s_src, v_noacc)>>,
      <<Attr(s_src, v_dir)>>,
      <<Attr(s_src, s_empty_ref)>> }

s_p  == <<"p">>
s_br == <<"b","r">>

StartTags ==
    {Tag("starttag", s_img, a) : a \in ImgAttrs}
        \cup {Tag("starttag", s_p, <<Attr(<<"i","d">>, <<"a","&","b">>), Bare(<<"h">>)>>)}

StartEndTags ==
    { Tag("startendtag", s_img, <<Attr(s_src, v_local), Attr(s_alt, <<>>)>>),
      Tag("startendtag", s_img, <<Attr(s_src, <<>>)>>),
      Tag("startendtag", s_br, <<>>) }

EndTags  == {Tag("endtag", s_p, <<>>)}
Datas    == {Text("data", <<"a"," ","&"," ","b">>)}
Comments == {Text("comment", <<" ","c"," ">>)}
Decls    == {Text("decl", <<"D","O","C","T","Y","P","E"," ","h","t","m","l">>)}

-----------------------------------------------------------------------------
(* HTMLImageInliner handlers, HTMLProcessor.process_file and main *)

\* the document of the current loop iteration
html_file == html_files[idx]

\* the parser appends one part; the img handler may change the report
Emit(g) ==
    /\ output_parts' = Append(output_parts, g.text)
    /\ emitted' = Append(emitted, g.emitted)
    /\ report' = g.report
    /\ fs_access' = fs_access \cup g.access

\* a part that is not a tag
Plain(text) == [text |-> text, report |-> report, access |-> {}, emitted |-> <<>>]

\* every tag goes to _process_img_tag
TagEvent_every_tag(ev, self_closing) ==
    Emit(_process_img_tag(fs, report, html_file, ev.tag, ev.attrs, self_closing))

\* handle_starttag and handle_startendtag: only img goes to _process_img_tag
TagEvent(ev, self_closing) ==
    IF lower(ev.tag) = s_img
    THEN Emit(_process_img_tag(fs, report, html_file, ev.tag, ev.attrs, self_closing))
    ELSE Emit(Rebuilt(ev.tag, ev.attrs, self_closing, report, {}))

Fed(ev) ==
    /\ pc = "feed"
    /\ fed' = Append(fed, ev)
    /\ UNCHANGED <<fs, html_files, idx, pc, results, np, nq, nf, cleaned>>

handle_starttag(ev) ==
    /\ ev.kind = "starttag"
    /\ Fed(ev)
    /\ TagEvent(ev, FALSE)

handle_startendtag(ev) ==
    /\ ev.kind = "startendtag"
    /\ Fed(ev)
    /\ TagEvent(ev, TRUE)

handle_endtag(ev) ==
    /\ ev.kind = "endtag"
    /\ Fed(ev)
    /\ Emit(Plain(<<"<", "/">> \o ev.tag \o <<">">>))

handle_data(ev) ==
    /\ ev.kind = "data"
    /\ Fed(ev)
    /\ Emit(Plain(ev.text))

handle_comment(ev) ==
    /\ ev.kind = "comment"
    /\ Fed(ev)
    /\ Emit(Plain(<<"<", "!", "-", "-">> \o ev.text \o <<"-", "-", ">">>))

handle_decl(ev) ==
    /\ ev.kind = "decl"
    /\ Fed(ev)
    /\ Emit(Plain(<<"<", "!">> \o ev.text \o <<">">>))

get_processed_html == Concat(output_parts)

s_file_read  == <<"(","f","i","l","e"," ","r","e","a","d",")">>
s_parsing    == <<"(","p","a","r","s","i","n","g",")">>
s_file_write == <<"(","f","i","l","e"," ","w","r","i","t","e",")">>

\* process_file returned: None, or the output path
Returned(doc, ok, path) == [doc |-> doc, ok |-> ok, path |-> path]

FreshParser ==
    /\ fed' = <<>>
    /\ output_parts' = <<>>
    /\ emitted' = <<>>
    /\ fs_access' = {}

\* a document-level failure that ends the loop of main
ReturnNone_and_stop(doc, ref, reason) ==
    /\ report' = log_failure(report, doc, ref, reason)
    /\ results' = Append(results, Returned(doc, FALSE, NoPath))
    /\ pc' = "done"

\* process_file returns None after a document-level failure
ReturnNone(doc, ref, reason) ==
    /\ report' = log_failure(report, doc, ref, reason)
    /\ results' = Append(results, Returned(doc, FALSE, NoPath))
    /\ pc' = "loop"

\* main takes the next document and process_file reads it
ReadDoc(doc) ==
    IF ReadRaises(fs, doc)
    THEN /\ ReturnNone(doc, s_file_read,
                Reason("Could not read HTML file: [Errno 13] Permission denied: ",
                       PermissionDenied(PathStr(doc)).detail))
         /\ UNCHANGED <<fed, output_parts, emitted, fs_access>>
    ELSE /\ pc' = "feed"
         /\ FreshParser
         /\ UNCHANGED <<report, results>>

ReadFile ==
    /\ pc = "loop"
    /\ idx < Len(html_files)
    /\ idx' = idx + 1
    /\ ReadDoc(html_files[idx + 1])
    /\ UNCHANGED <<fs, html_files, np, nq, nf, cleaned>>

\* parser.feed / parser.close raise on the rest of the document
FeedRaises ==
    /\ pc = "feed"
    /\ ReturnNone(html_file, s_parsing, Reason("Invalid HTML structure: ", <<>>))
    /\ UNCHANGED <<fs, html_files, idx, fed, output_parts, emitted, fs_access,
                   np, nq, nf, cleaned>>

\* whether output_path.write_text raises: no file can be created in its directory
WriteRaises(f, path) == Stat(f, Parent(path)) # "dir"

\* the "Write output" block of process_file, out what get_output_path handed back
WriteTo(doc, out) ==
    IF out.raised
    THEN /\ ReturnNone(doc, s_file_write,
                Reason("Could not write output: Too many output files for ", Name(doc)))
         /\ fs' = fs
    ELSE IF WriteRaises(fs, out.path)
    THEN /\ ReturnNone(doc, s_file_write,
                Reason("Could not write output: [Errno 13] Permission denied: ",
                       PermissionDenied(PathStr(out.path)).detail))
         /\ fs' = fs
    ELSE /\ fs' = (out.path.parts :> Str("file", Utf8(get_processed_html))) @@ fs
         /\ results' = Append(results, Returned(doc, TRUE, out.path))
         /\ report' = report
         /\ pc' = "loop"

\* the end of the document: the output path is computed and the text written
WriteOutput ==
    /\ pc = "feed"
    /\ \E out \in {get_output_path(fs, html_file)} : WriteTo(html_file, out)
    /\ UNCHANGED <<html_files, idx, fed, output_parts, emitted, fs_access,
                   np, nq, nf, cleaned>>

\* the loop of main is over
Exit ==
    /\ pc = "loop"
    /\ idx = Len(html_files)
    /\ pc' = "done"
    /\ UNCHANGED <<fs, report, html_files, idx, fed, output_parts, emitted,
                   fs_access, results, np, nq, nf, cleaned>>

-----------------------------------------------------------------------------
(* Spec: one document, every kind of img element *)

MaxEvents == 2

InitRun(files, batch) ==
    /\ fs = files
    /\ html_files = batch
    /\ report = EmptyReport
    /\ idx = 0
    /\ pc = "loop"
    /\ fed = <<>>
    /\ output_parts = <<>>
    /\ emitted = <<>>
    /\ fs_access = {}
    /\ results = <<>>

\* p.html alone; beside a p_ok.html; unreadable; in a directory that is read-only
SpecFiles ==
    { BaseFS, BatchFS,
      WithKind(BaseFS, Doc1, "locked"),
      WithKind(BaseFS, Parent(Doc1), "readonly") }

\* the variables of SpecClean, outside SpecClean
NoClean == np = <<>> /\ nq = <<>> /\ nf = <<>> /\ cleaned = <<>>

Init == \E files \in SpecFiles : InitRun(files, <<Doc1>>) /\ NoClean

Next ==
    \/ ReadFile
    \/ Len(fed) < MaxEvents /\ \E ev \in StartTags : handle_starttag(ev)
    \/ Len(fed) < MaxEvents /\ \E ev \in StartEndTags : handle_startendtag(ev)
    \/ Len(fed) < MaxEvents /\ \E ev \in EndTags : handle_endtag(ev)
    \/ Len(fed) < MaxEvents /\ \E ev \in Datas : handle_data(ev)
    \/ Len(fed) < MaxEvents /\ \E ev \in Comments : handle_comment(ev)
    \/ Len(fed) < MaxEvents /\ \E ev \in Decls : handle_decl(ev)
    \/ FeedRaises
    \/ WriteOutput
    \/ Exit

Spec == Init /\ [][Next]_vars

-----------------------------------------------------------------------------
(* SpecBatch: main over a batch of documents.  /d holds p.html and          *)
(* p_ok.html, /d/n holds q.htm; the src r.svg names a file for the           *)
(* documents of /d and nothing for the document of /d/n.                    *)
(* A document holds nothing or one element, <img src="r.svg">.              *)

MaxDocs == 2

Docs == {Doc1, Doc2, Doc3}

\* what find_html_files hands to main: distinct documents, at least one
Batches ==
    {b \in UNION {[1..n -> Docs] : n \in 1..MaxDocs} :
        \A i, j \in 1..Len(b) : i # j => b[i] # b[j]}

\* all readable and writable; p.html or q.htm unreadable; /d read-only; every
\* output name of p.html taken
BatchFiles ==
    { BatchFS,
      WithKind(BatchFS, Doc1, "locked"),
      WithKind(BatchFS, Doc3, "locked"),
      WithKind(BatchFS, Parent(Doc1), "readonly"),
      WithCandidates(BatchFS, Doc1, RangeStop - 1) }

BatchStartTags == {Tag("starttag", s_img, <<Attr(s_src, v_local)>>)}

InitBatch ==
    \E files \in BatchFiles : \E batch \in Batches : InitRun(files, batch) /\ NoClean

NextBatch ==
    \/ ReadFile
    \/ fed = <<>> /\ \E ev \in BatchStartTags : handle_starttag(ev)
    \/ FeedRaises
    \/ WriteOutput
    \/ Exit

SpecBatch == InitBatch /\ [][NextBatch]_vars

\* main is one thread: its loop takes the next document, process_file gets to
\* its "Write output" block once the parser is through, and the loop ends
MainStep == ReadFile \/ WriteOutput \/ Exit

SpecBatchFair == SpecBatch /\ WF_vars(MainStep)

-----------------------------------------------------------------------------
(* SpecOut: get_output_path for an input beside any set of its first        *)
(* MaxTaken output names, or beside all but the last, or beside all of them *)

MaxTaken == 5

n_p    == <<"p">>
n_p_ab == <<"p",".","a",".","b">>

\* inputs: p.html, p_ok.html, q.htm, p (no extension), p.a.b (two dots)
OutInputs ==
    { Doc1, Doc2, Doc3,
      [abs |-> TRUE, parts |-> <<n_d, n_p>>],
      [abs |-> TRUE, parts |-> <<n_d, n_p_ab>>] }

\* f with the output candidates of input_file numbered in taken existing
WithTaken(f, input_file, taken) ==
    [q \in {Candidate(input_file, i).parts : i \in taken} |-> Str("file", <<>>)] @@ f

TakenSets ==
    SUBSET (1..MaxTaken) \cup {1..(RangeStop - 2), 1..(RangeStop - 1), 2..(RangeStop - 1)}

\* BaseFS with the input itself
BesideInput(input_file) == (input_file.parts :> Str("file", <<>>)) @@ BaseFS

InitOut ==
    \E input_file \in OutInputs : \E taken \in TakenSets :
        /\ InitRun(WithTaken(BesideInput(input_file), input_file, taken), <<input_file>>)
        /\ NoClean

\* get_output_path(html_files[1]) is called; what it hands back is kept in
\* results and the candidate.exists() calls it made in fs_access
ComputeOutput ==
    /\ pc = "loop"
    /\ results = <<>>
    /\ \E out \in {get_output_path(fs, html_files[1])} :
          /\ results' = <<Returned(html_files[1], ~out.raised, out.path)>>
          /\ fs_access' = {<<"stat", PathStr(Candidate(html_files[1], i))>> :
                              i \in 1..out.checks}
    /\ pc' = "done"
    /\ UNCHANGED <<fs, report, html_files, idx, fed, output_parts, emitted,
                   np, nq, nf, cleaned>>

NextOut == ComputeOutput

SpecOut == InitOut /\ [][NextOut]_vars

-----------------------------------------------------------------------------
(* SpecClean: clean_path on a path p without '#' and '?', followed by a     *)
(* query q and a fragment f, and the image the loader then looks for        *)

MaxPathLen == 2
MaxTextLen == 2

\* every string over alphabet of length n at most
Strings(alphabet, n) == UNION {[1..k -> alphabet] : k \in 0..n}

PathSamples ==
    Strings({"a", " ", "/"}, MaxPathLen) \cup
        { v_local, <<" ">> \o v_local, v_local \o <<" ">>, v_fileabs,
          <<"\t">> \o v_fileabs, v_parent, v_missing }

QuerySamples    == Strings({"v", "#", "?"}, MaxTextLen)
FragmentSamples == Strings({"f", "#", "?", " "}, MaxTextLen)

NotCleaned == [bare |-> <<>>, query |-> <<>>, fragment |-> <<>>, both |-> <<>>,
               bare_loads |-> FALSE, both_loads |-> FALSE]

InitClean ==
    /\ InitRun(BaseFS, <<Doc1>>)
    /\ np \in PathSamples
    /\ nq \in QuerySamples
    /\ nf \in FragmentSamples
    /\ cleaned = NotCleaned

\* whether _inline_local_image finds and loads the image src names
Loads(src) == _inline_local_image(fs, report, Doc1, strip(src)).ret = "uri"

\* clean_path is applied to p, p?q, p#f and p?q#f
Normalize ==
    /\ pc = "loop"
    /\ cleaned' =
           [bare     |-> clean_path(np),
            query    |-> clean_path(np \o <<"?">> \o nq),
            fragment |-> clean_path(np \o <<"#">> \o nf),
            both     |-> clean_path(np \o <<"?">> \o nq \o <<"#">> \o nf),
            bare_loads |-> Loads(np),
            both_loads |-> Loads(np \o <<"?">> \o nq \o <<"#">> \o nf)]
    /\ pc' = "done"
    /\ UNCHANGED <<fs, report, html_files, idx, fed, output_parts, emitted,
                   fs_access, results, np, nq, nf>>

NextClean == Normalize

SpecClean == InitClean /\ [][NextClean]_vars

-----------------------------------------------------------------------------
(* SpecLex: a document without img elements, from its markup.  HTMLParser   *)
(* (convert_charrefs=True) lexes the markup into the events it hands to the *)
(* handlers: tag and attribute names in lower case, attribute values        *)
(* without their quotes and with character references replaced, text with   *)
(* character references replaced.  An element of markup is                  *)
(* [kind, name, attrs, gap, text]: attrs as written, [name, quote, value]   *)
(* with quote "double", "single", "bare" (no quotes) or "none" (no value);  *)
(* gap the white space before the closing ">" or "/>".                      *)

SrcAttr(name, quote, value) == [name |-> name, quote |-> quote, value |-> value]

Element(kind, name, attrs, gap, text) ==
    [kind |-> kind, name |-> name, attrs |-> attrs, gap |-> gap, text |-> text]

\* the quote character of an attribute as written
QuoteChars(quote) ==
    IF quote = "double" THEN <<"\"">> ELSE IF quote = "single" THEN <<"'">> ELSE <<>>

AttrMarkup(a) ==
    IF a.quote = "none" THEN <<" ">> \o a.name
    ELSE <<" ">> \o a.name \o <<"=">> \o QuoteChars(a.quote) \o a.value
                \o QuoteChars(a.quote)

\* the characters of the element in the document
Markup(el) ==
    IF el.kind = "starttag"
    THEN <<"<">> \o el.name \o Concat([i \in 1..Len(el.attrs) |-> AttrMarkup(el.attrs[i])])
                 \o el.gap \o <<">">>
    ELSE IF el.kind = "startendtag"
    THEN <<"<">> \o el.name \o Concat([i \in 1..Len(el.attrs) |-> AttrMarkup(el.attrs[i])])
                 \o el.gap \o <<"/", ">">>
    ELSE IF el.kind = "endtag" THEN <<"<", "/">> \o el.name \o el.gap \o <<">">>
    ELSE IF el.kind = "comment" THEN <<"<", "!", "-", "-">> \o el.text \o <<"-", "-", ">">>
    ELSE IF el.kind = "decl" THEN <<"<", "!">> \o el.text \o <<">">>
    ELSE el.text

\* the character references html.escape writes, and what they stand for
CharRefs ==
    { [ref |-> s_amp, ch |-> "&"], [ref |-> s_lt, ch |-> "<"], [ref |-> s_gt, ch |-> ">"],
      [ref |-> s_quot, ch |-> "\""], [ref |-> s_apos, ch |-> "'"] }

RECURSIVE unescape(_)
\* html.unescape, on text whose character references are those of CharRefs
unescape(s) ==
    IF s = <<>> THEN <<>>
    ELSE IF \E r \in CharRefs : startswith(s, r.ref)
    THEN LET r == CHOOSE x \in CharRefs : startswith(s, x.ref)
         IN  <<r.ch>> \o unescape(SliceFrom(s, Len(r.ref)))
    ELSE <<Head(s)>> \o unescape(Tail(s))

\* the event the parser hands to the handler for the element; raw is the
\* markup it was lexed from
Lexed(el) ==
    [kind  |-> el.kind,
     tag   |-> lower(el.name),
     attrs |-> [i \in 1..Len(el.attrs) |->
                   [k    |-> lower(el.attrs[i].name),
                    hasv |-> el.attrs[i].quote # "none",
                    v    |-> unescape(el.attrs[i].value)]],
     text  |-> IF el.kind = "data" THEN unescape(el.text) ELSE el.text,
     raw   |-> Markup(el)]

s_P     == <<"P">>
s_a     == <<"a">>
s_href  == <<"h","r","e","f">>
s_title == <<"t","i","t","l","e">>

\* <p>, <P>, <p >, <p hidden>, <a href='x'>, <a href=x>, <p title="a&amp;b">
PlainStartTags ==
    { Element("starttag", s_p, <<>>, <<>>, <<>>),
      Element("starttag", s_P, <<>>, <<>>, <<>>),
      Element("starttag", s_p, <<>>, <<" ">>, <<>>),
      Element("starttag", s_p, <<SrcAttr(<<"h","i","d","d","e","n">>, "none", <<>>)>>,
              <<>>, <<>>),
      Element("starttag", s_a, <<SrcAttr(s_href, "single", <<"x">>)>>, <<>>, <<>>),
      Element("starttag", s_a, <<SrcAttr(s_href, "bare", <<"x">>)>>, <<>>, <<>>),
      Element("starttag", s_p, <<SrcAttr(s_title, "double", <<"a">> \o s_amp \o <<"b">>)>>,
              <<>>, <<>>) }

\* <br/>, <br />
PlainStartEndTags ==
    { Element("startendtag", s_br, <<>>, <<>>, <<>>),
      Element("startendtag", s_br, <<>>, <<" ">>, <<>>) }

\* </p>, </P>
PlainEndTags ==
    { Element("endtag", s_p, <<>>, <<>>, <<>>),
      Element("endtag", s_P, <<>>, <<>>, <<>>) }

\* a, a &amp; b, &lt;b&gt;
PlainDatas ==
    { Element("data", <<>>, <<>>, <<>>, <<"a">>),
      Element("data", <<>>, <<>>, <<>>, <<"a"," ">> \o s_amp \o <<" ","b">>),
      Element("data", <<>>, <<>>, <<>>, s_lt \o <<"b">> \o s_gt) }

PlainComments == {Element("comment", <<>>, <<>>, <<>>, <<" ","c"," ">>)}
PlainDecls ==
    {Element("decl", <<>>, <<>>, <<>>, <<"D","O","C","T","Y","P","E"," ","h","t","m","l">>)}

InitLex == InitRun(BaseFS, <<Doc1>>) /\ NoClean

NextLex ==
    \/ ReadFile
    \/ Len(fed) < MaxEvents /\ \E el \in PlainStartTags : handle_starttag(Lexed(el))
    \/ Len(fed) < MaxEvents /\ \E el \in PlainStartEndTags : handle_startendtag(Lexed(el))
    \/ Len(fed) < MaxEvents /\ \E el \in PlainEndTags : handle_endtag(Lexed(el))
    \/ Len(fed) < MaxEvents /\ \E el \in PlainDatas : handle_data(Lexed(el))
    \/ Len(fed) < MaxEvents /\ \E el \in PlainComments : handle_comment(Lexed(el))
    \/ Len(fed) < MaxEvents /\ \E el \in PlainDecls : handle_decl(Lexed(el))
    \/ WriteOutput
    \/ Exit

SpecLex == InitLex /\ [][NextLex]_vars

-----------------------------------------------------------------------------
(* The img elements the claims speak of, stated on the characters of src *)

IsImg(ev) == ev.kind \in {"starttag", "startendtag"} /\ lower(ev.tag) = s_img

\* the src value as it stands in the element, and trimmed
RawSrc(ev)  == AttrsSrc(ev.attrs)
Trimmed(ev) == strip(RawSrc(ev))

HasPrefix(ev, prefix) == startswith(lower(Trimmed(ev)), prefix)

IsEmptyImg(ev)  == IsImg(ev) /\ Trimmed(ev) = <<>>
IsDataImg(ev)   == IsImg(ev) /\ HasPrefix(ev, s_data)
IsRemoteImg(ev) == IsImg(ev) /\ (HasPrefix(ev, s_http) \/ HasPrefix(ev, s_https))
IsLocalImg(ev)  ==
    IsImg(ev) /\ ~IsEmptyImg(ev) /\ ~IsDataImg(ev) /\ ~IsRemoteImg(ev)

\* what the local src of ev names in the filesystem, seen from document doc
Target(doc, ev)   == ImagePath(doc, Trimmed(ev))
TargetIs(doc, ev) == Stat(fs, Target(doc, ev))

LoadsImg(doc, ev)   == IsLocalImg(ev) /\ TargetIs(doc, ev) = "file"
MissingImg(doc, ev) == IsLocalImg(ev) /\ TargetIs(doc, ev) \notin FileKinds \cup {"EACCES"}
FailingImg(doc, ev) == IsImg(ev) /\ ~IsDataImg(ev) /\ ~LoadsImg(doc, ev)

\* the reference a failure of ev is recorded under
FailureRef(ev) == IF Trimmed(ev) = <<>> THEN s_empty_ref ELSE Trimmed(ev)

\* the entries of a report for document doc
SuccOf(r, doc) ==
    IF PathStr(doc) \in DOMAIN r.success THEN r.success[PathStr(doc)] ELSE <<>>
FailOf(r, doc) ==
    IF PathStr(doc) \in DOMAIN r.fail THEN r.fail[PathStr(doc)] ELSE EmptyDict

SuccRefs(r, doc) == {SuccOf(r, doc)[i] : i \in 1..Len(SuccOf(r, doc))}
FailRefs(r, doc) == DOMAIN FailOf(r, doc)

Feeding == pc = "feed"

\* the step in which the parser delivers an event
Delivers == Feeding /\ pc' = "feed" /\ Len(fed') = Len(fed) + 1
Delivered == fed'[Len(fed')]

\* the last part was re-emitted from the element's own attribute list
PassedThrough ==
    /\ output_parts' = Append(output_parts,
           _rebuild_tag(Delivered.tag, Delivered.attrs, Delivered.kind = "startendtag"))
    /\ emitted' = Append(emitted, Delivered.attrs)

DocLevelRefs == {s_file_read, s_parsing, s_file_write}

-----------------------------------------------------------------------------
(* C1  While the img elements of a document are processed, no reference is  *)
(* both in success[document] and in fail[document].                         *)
C1_Disjoint ==
    \A i \in 1..Len(html_files) :
        SuccRefs(report, html_files[i]) \cap FailRefs(report, html_files[i]) = {}

-----------------------------------------------------------------------------
(* C2  An img element whose src names a readable regular file is re-emitted *)
(* with every src value replaced by the data URI, every other attribute     *)
(* (name, value, absence of value) unchanged and in place, and as many      *)
(* attributes as it had.                                                    *)
InlinedAttrs(ev, out) ==
    /\ Len(out) = Len(ev.attrs)
    /\ \A j \in 1..Len(ev.attrs) :
          IF ev.attrs[j].k = s_src
          THEN /\ out[j].k = s_src
               /\ out[j].hasv
               /\ out[j].v = encode_to_data_uri(fs, Target(html_file, ev))
               /\ startswith(out[j].v, s_data)
          ELSE out[j] = ev.attrs[j]

C2_SrcReplaced ==
    Feeding =>
        \A i \in 1..Len(fed) :
            LoadsImg(html_file, fed[i]) =>
                /\ InlinedAttrs(fed[i], emitted[i])
                /\ output_parts[i] =
                       _rebuild_tag(fed[i].tag, emitted[i], fed[i].kind = "startendtag")

C2_Witness ==
    /\ Feeding
    /\ \E i \in 1..Len(fed) :
          /\ LoadsImg(html_file, fed[i])
          /\ Len(fed[i].attrs) >= 3
          /\ \E j \in 1..Len(fed[i].attrs) : ~fed[i].attrs[j].hasv

-----------------------------------------------------------------------------
(* C3  The references in success[document] are, in order, the src strings   *)
(* of the elements that were inlined.                                       *)
Inlined(doc) == SelectSeq(fed, LAMBDA ev : LoadsImg(doc, ev))

\* as claimed: the src exactly as it stands in the element
C3_RawRecorded ==
    Feeding =>
        SuccOf(report, html_file) =
            [i \in 1..Len(Inlined(html_file)) |-> RawSrc(Inlined(html_file)[i])]

\* as the code has it: the src with surrounding whitespace trimmed, and with its
\* query string, fragment and file:// prefix still in place
C3_TrimmedRecorded ==
    Feeding =>
        SuccOf(report, html_file) =
            [i \in 1..Len(Inlined(html_file)) |-> Trimmed(Inlined(html_file)[i])]

C3_Witness ==
    /\ Feeding
    /\ \E i \in 1..Len(SuccOf(report, html_file)) :
          /\ SuccOf(report, html_file)[i] # clean_path(SuccOf(report, html_file)[i])
          /\ \E j \in 1..Len(fed) : RawSrc(fed[j]) # Trimmed(fed[j])
                                     /\ Trimmed(fed[j]) = SuccOf(report, html_file)[i]

-----------------------------------------------------------------------------
(* C4  Delivering an img element whose src is a data URI re-emits it from   *)
(* its own attributes and changes neither the report nor the set of         *)
(* filesystem calls made.                                                   *)
C4_DataUriUntouched ==
    [][(Delivers /\ IsDataImg(Delivered)) =>
          /\ PassedThrough
          /\ report' = report
          /\ fs_access' = fs_access
          /\ fs' = fs]_vars

C4_Witness ==
    /\ Feeding
    /\ Len(fed) = 2
    /\ IsDataImg(fed[2])
    /\ RawSrc(fed[2]) # lower(Trimmed(fed[2]))
    /\ FailRefs(report, html_file) # {}

-----------------------------------------------------------------------------
(* C5  Delivering an img element whose src is a remote URL re-emits it from *)
(* its own attributes, records the failure 'Remote URLs cannot be inlined', *)
(* adds nothing to success and makes no filesystem call.                    *)
RemoteRecorded(ref) ==
    /\ PassedThrough
    /\ ref \in FailRefs(report', html_file)
    /\ FailOf(report', html_file)[ref] = Reason("Remote URLs cannot be inlined", <<>>)
    /\ report'.success = report.success
    /\ fs_access' = fs_access
    /\ fs' = fs

\* as claimed: under the reference exactly as it stands in the element
C5_RemoteExact ==
    [][(Delivers /\ IsRemoteImg(Delivered)) => RemoteRecorded(RawSrc(Delivered))]_vars

\* as the code has it: under the reference with surrounding whitespace trimmed
C5_RemoteTrimmed ==
    [][(Delivers /\ IsRemoteImg(Delivered)) => RemoteRecorded(Trimmed(Delivered))]_vars

C5_Witness ==
    /\ Feeding
    /\ \E i \in 1..Len(fed) :
          /\ IsRemoteImg(fed[i])
          /\ RawSrc(fed[i]) # Trimmed(fed[i])
          /\ Trimmed(fed[i]) \in FailRefs(report, html_file)

-----------------------------------------------------------------------------
(* C6  Delivering an img element whose local src names nothing, or no       *)
(* regular file, re-emits it from its own attributes and records exactly    *)
(* one failure, 'File not found: ' with the resolved absolute path, and no  *)
(* success.                                                                 *)
NotFoundRecorded(ref, ev) ==
    /\ PassedThrough
    /\ FailRefs(report', html_file) = FailRefs(report, html_file) \cup {ref}
    /\ \A other \in FailRefs(report, html_file) \ {ref} :
          FailOf(report', html_file)[other] = FailOf(report, html_file)[other]
    /\ FailOf(report', html_file)[ref] =
           Reason("File not found: ", PathStr(Target(html_file, ev)))
    /\ Target(html_file, ev).abs
    /\ startswith(PathStr(Target(html_file, ev)), <<"/">>)
    /\ report'.success = report.success

\* as claimed: under the reference exactly as it stands in the element
C6_NotFoundExact ==
    [][(Delivers /\ MissingImg(html_file, Delivered)) =>
          NotFoundRecorded(RawSrc(Delivered), Delivered)]_vars

\* as the code has it: under the reference with surrounding whitespace trimmed
C6_NotFoundTrimmed ==
    [][(Delivers /\ MissingImg(html_file, Delivered)) =>
          NotFoundRecorded(Trimmed(Delivered), Delivered)]_vars

C6_Witness ==
    /\ Feeding
    /\ Len(fed) = 2
    /\ MissingImg(html_file, fed[1])
    /\ MissingImg(html_file, fed[2])
    /\ TargetIs(html_file, fed[1]) = "dir"
    /\ RawSrc(fed[2]) # Trimmed(fed[2])
    /\ Cardinality(FailRefs(report, html_file)) = 2

-----------------------------------------------------------------------------
(* C7  A failing img element is emitted once, from its own attributes, its  *)
(* failure is in the report, and the parser goes on: every event delivered  *)
(* has its part, in order, and the document is not abandoned.               *)
C7_FailureIsLocal ==
    /\ Feeding =>
          /\ Len(output_parts) = Len(fed)
          /\ \A i \in 1..Len(fed) :
                FailingImg(html_file, fed[i]) =>
                    /\ output_parts[i] =
                          _rebuild_tag(fed[i].tag, fed[i].attrs, fed[i].kind = "startendtag")
                    /\ emitted[i] = fed[i].attrs
                    /\ FailureRef(fed[i]) \in FailRefs(report, html_file)
    /\ \A i \in 1..Len(results) :
          ~results[i].ok =>
              FailRefs(report, results[i].doc) \cap DocLevelRefs # {}

C7_Witness ==
    /\ Feeding
    /\ Len(fed) = 2
    /\ FailingImg(html_file, fed[1])
    /\ TargetIs(html_file, fed[1]) = "EACCES"
    /\ LoadsImg(html_file, fed[2])
    /\ Len(SuccOf(report, html_file)) = 1

-----------------------------------------------------------------------------
(* C8  In a batch, a document-level failure (read, parse, write, no output  *)
(* name left) leaves that document without an output path, and main still   *)
(* goes through every later document, one document at a time.               *)

\* document i of the batch is done with, and process_file returned None for it
Aborted(i) == Len(results) >= i /\ ~results[i].ok

\* the documents are taken in order, each one finished before the next is read
OneAtATime ==
    /\ Len(results) = (IF Feeding THEN idx - 1 ELSE idx)
    /\ \A i \in 1..Len(results) : results[i].doc = html_files[i]
    /\ Feeding => html_file = html_files[Len(results) + 1]

\* a document has a document-level failure exactly when it has no output path
NoPathOnFailure ==
    \A i \in 1..Len(results) :
        /\ (FailRefs(report, results[i].doc) \cap DocLevelRefs # {}) <=> ~results[i].ok
        /\ ~results[i].ok => results[i].path = NoPath
        /\ results[i].ok => is_file(fs, results[i].path)

C8_BatchGoesOn ==
    /\ [](OneAtATime /\ NoPathOnFailure)
    /\ \A i \in 1..MaxDocs :
          Aborted(i) ~> (pc = "done" /\ Len(results) = Len(html_files))

C8_Witness ==
    /\ pc = "done"
    /\ Len(html_files) = 2
    /\ Aborted(1)
    /\ s_file_write \in FailRefs(report, html_files[1])
    /\ results[2].ok
    /\ Len(SuccOf(report, html_files[2])) = 1

-----------------------------------------------------------------------------
(* C9  The output path is the first name that does not exist in the         *)
(* sequence <stem>_ok<ext>, <stem>_ok_2<ext>, <stem>_ok_3<ext>, ...         *)

\* stem and extension of the inputs of SpecOut
StemAndExt ==
    (Doc1 :> <<n_p, s_html>>) @@
    (Doc2 :> <<<<"p","_","o","k">>, s_html>>) @@
    (Doc3 :> <<<<"q">>, s_htm>>) @@
    ([abs |-> TRUE, parts |-> <<n_d, n_p>>] :> <<n_p, <<>>>>) @@
    ([abs |-> TRUE, parts |-> <<n_d, n_p_ab>>] :> <<<<"p",".","a">>, <<".","b">>>>)

\* the k-th name of the sequence, in the directory of the input
Expected(input_file, k) ==
    [abs |-> TRUE,
     parts |-> SubSeq(input_file.parts, 1, Len(input_file.parts) - 1) \o
               << StemAndExt[input_file][1] \o <<"_","o","k">> \o
                  (IF k = 1 THEN <<>> ELSE <<"_">> \o Digits(k)) \o
                  StemAndExt[input_file][2] >>]

-----------------------------------------------------------------------------
(* C10  clean_path(p?q#f), clean_path(p?q) and clean_path(p#f) equal        *)
(* clean_path(p) for a path p without '#' and '?', and the loader finds     *)
(* the image of p?q#f where it finds the image of p.                        *)
SameAsBare ==
    /\ cleaned.both = cleaned.bare
    /\ cleaned.query = cleaned.bare
    /\ cleaned.fragment = cleaned.bare
    /\ cleaned.bare_loads => cleaned.both_loads

\* as claimed: for every such p
C10_EveryPath == pc = "done" => SameAsBare

\* what clean_path does give: the same for every such p that does not end in
\* whitespace (it trims before it cuts)
C10_NoTrailingSpace ==
    (pc = "done" /\ (np = <<>> \/ np[Len(np)] \notin Whitespace)) => SameAsBare

\* src "r.svg " is inlined, src "r.svg ?v#f" is not: its path keeps the space
C10_Witness ==
    /\ pc = "done"
    /\ np = v_local \o <<" ">>
    /\ nq = <<"v">> /\ nf = <<"f">>
    /\ cleaned.bare = v_local
    /\ cleaned.both = v_local \o <<" ">>
    /\ cleaned.bare_loads
    /\ ~cleaned.both_loads

-----------------------------------------------------------------------------
(* C11  The output text of a document without img elements is its input     *)
(* text: the parts the handlers append, joined, are the markup the events   *)
(* were lexed from.                                                         *)

\* the markup the events were lexed from
SourceOf(events) == Concat([i \in 1..Len(events) |-> events[i].raw])

C11_SameText ==
    (pc = "feed" /\ \A i \in 1..Len(fed) : ~IsImg(fed[i])) =>
        get_processed_html = SourceOf(fed)

\* the text &lt;b&gt; comes out as the tag <b>
C11_Witness ==
    /\ pc = "loop"
    /\ Len(results) = 1 /\ results[1].ok
    /\ SourceOf(fed) = s_lt \o <<"b">> \o s_gt
    /\ Entry(fs, results[1].path).data = Utf8(<<"<", "b", ">">>)

-----------------------------------------------------------------------------
(* C12  For every img element the handler calls at most one of log_success  *)
(* and log_failure, at most once; it calls none exactly when the src is a   *)
(* data URI.                                                                *)

\* the calls made in the step
NewCalls == SubSeq(report'.calls, Len(report.calls) + 1, Len(report'.calls))

C12_OneCall ==
    [][(Delivers /\ IsImg(Delivered)) =>
          /\ SubSeq(report'.calls, 1, Len(report.calls)) = report.calls
          /\ Len(NewCalls) <= 1
          /\ Len(NewCalls) = 0 <=> IsDataImg(Delivered)
          /\ \A i \in 1..Len(NewCalls) :
                /\ NewCalls[i].doc = PathStr(html_file)
                /\ NewCalls[i].method = "log_success" <=> LoadsImg(html_file, Delivered)]_vars

\* an img whose stat raises, then an img whose read raises: one call each
C12_Witness ==
    /\ pc = "feed"
    /\ Len(fed) = 2
    /\ IsLocalImg(fed[1]) /\ TargetIs(html_file, fed[1]) = "EACCES"
    /\ IsLocalImg(fed[2]) /\ TargetIs(html_file, fed[2]) = "locked"
    /\ Len(report.calls) = 2
    /\ report.calls[1].method = "log_failure" /\ report.calls[2].method = "log_failure"

-----------------------------------------------------------------------------
(* C13  get_output_path looks at <stem>_ok<ext> and <stem>_ok_2<ext> ..      *)
(* <stem>_ok_999<ext> and at nothing else, makes at most 999 existence      *)
(* checks, and raises exactly when all 999 exist.                           *)
C13_BoundedSearch ==
    pc = "done" =>
        /\ fs_access \subseteq
               {<<"stat", PathStr(Expected(html_files[1], k))>> : k \in 1..999}
        /\ Cardinality(fs_access) >= 1
        /\ Cardinality(fs_access) <= 999
        /\ ~results[1].ok <=> \A k \in 1..999 : exists(fs, Expected(html_files[1], k))
        /\ ~results[1].ok => results[1].path = NoPath

\* all 999 names taken: 999 checks, no path
C13_Witness ==
    /\ pc = "done"
    /\ ~results[1].ok
    /\ Cardinality(fs_access) = 999
    /\ <<"stat", <<"/","d","/","p","_","o","k","_","9","9","9",".","h","t","m","l">>>>
           \in fs_access

\* 998 names taken, the last one free: 999 checks and p_ok_999.html
C13_LastName ==
    /\ pc = "done"
    /\ results[1].ok
    /\ Cardinality(fs_access) = 999
    /\ results[1].path.parts =
           <<n_d, <<"p","_","o","k","_","9","9","9",".","h","t","m","l">>>>

-----------------------------------------------------------------------------
(* C14  When the output name cannot be computed or the write raises,        *)
(* process_file makes one call, log_failure under '(file write)', returns   *)
(* no path and leaves every entry the document already had as it was; when  *)
(* the write succeeds it returns the output path and the report is as it    *)
(* was.                                                                     *)

\* the step in which process_file leaves its "Write output" block
WriteStep ==
    /\ Feeding
    /\ pc' = "loop"
    /\ NewCalls # <<Call("log_failure", html_file, s_parsing)>>

\* get_output_path or write_text raises
CannotWrite ==
    \E out \in {get_output_path(fs, html_file)} :
        out.raised \/ WriteRaises(fs, out.path)

\* every entry of document doc in r is in r2 with the value it had
EntriesKept(r, r2, doc) ==
    /\ SuccOf(r2, doc) = SuccOf(r, doc)
    /\ \A ref \in FailRefs(r, doc) :
          /\ ref \in FailRefs(r2, doc)
          /\ FailOf(r2, doc)[ref] = FailOf(r, doc)[ref]

C14_WriteFailure ==
    [][WriteStep =>
          \E r \in {results'[Len(results')]} :
              /\ Len(results') = Len(results) + 1
              /\ r.doc = html_file
              /\ IF CannotWrite
                 THEN /\ ~r.ok
                      /\ r.path = NoPath
                      /\ NewCalls = <<Call("log_failure", html_file, s_file_write)>>
                      /\ FailRefs(report', html_file) =
                             FailRefs(report, html_file) \cup {s_file_write}
                      /\ EntriesKept(report, report', html_file)
                 ELSE /\ r.ok
                      /\ r.path = get_output_path(fs, html_file).path
                      /\ report' = report]_vars

\* the failure of <img src="(file write)"> (no such file) was replaced by the
\* failure of the write
C14_Witness ==
    /\ pc = "loop"
    /\ Len(results) = 1
    /\ ~results[1].ok
    /\ Len(fed) = 1
    /\ IsImg(fed[1])
    /\ RawSrc(fed[1]) = s_file_write
    /\ report.calls = <<Call("log_failure", html_files[1], s_file_write),
                        Call("log_failure", html_files[1], s_file_write)>>
    /\ FailRefs(report, html_files[1]) = {s_file_write}
    /\ FailOf(report, html_files[1])[s_file_write].msg =
           "Could not write output: [Errno 13] Permission denied: "

\* the claim's cases without an entry under '(file write)' before the write
C14_OtherEntriesKept ==
    [][(WriteStep /\ CannotWrite /\ s_file_write \notin FailRefs(report, html_file)) =>
          /\ EntriesKept(report, report', html_file)
          /\ FailRefs(report', html_file) =
                 FailRefs(report, html_file) \cup {s_file_write}]_vars

-----------------------------------------------------------------------------
(* C15  A start tag, self-closing tag, end tag, text, comment or declaration *)
(* that is not an img leaves the report as it was, and a document without   *)
(* img that is read, parsed and written has no entry in success or fail.    *)

\* process_file returned the output path for a document in which no img was delivered
WrittenWithoutImg ==
    /\ pc = "loop"
    /\ Len(results) = 1
    /\ results[1].ok
    /\ \A i \in 1..Len(fed) : ~IsImg(fed[i])

C15_NonImgSilent ==
    /\ [][(Delivers /\ ~IsImg(Delivered)) => report' = report]_vars
    /\ [](WrittenWithoutImg =>
            /\ report.success = EmptyDict
            /\ report.fail = EmptyDict
            /\ report.calls = <<>>)

\* <p id="a&amp;b" h> and a text, written: nothing in the report
C15_Witness ==
    /\ WrittenWithoutImg
    /\ Len(fed) = 2
    /\ fed[1].kind = "starttag"
    /\ fed[2].kind = "data"
    /\ report = EmptyReport

\* a text after a failing img: the report keeps the entry of the img and nothing else
C15_AfterImg ==
    /\ Feeding
    /\ Len(fed) = 2
    /\ IsImg(fed[1])
    /\ fed[2].kind = "data"
    /\ Len(report.calls) = 1
    /\ FailRefs(report, html_file) = {s_empty_ref}

-----------------------------------------------------------------------------
(* C16  No process_file call changes or replaces anything that was in the   *)
(* filesystem before it: a successful call adds exactly one entry, at the   *)
(* path it returns, which did not exist and is not the input document; a    *)
(* failing call and every other step leave the filesystem as it was.        *)

\* process_file returns in this step
Returns == pc' = "loop" /\ Len(results') = Len(results) + 1

C16_NoOverwrite ==
    [][IF Returns /\ results'[Len(results')].ok
       THEN \E path \in {results'[Len(results')].path} :
               /\ path # NoPath
               /\ path # html_file
               /\ path.parts \notin DOMAIN fs
               /\ ~exists(fs, path)
               /\ path.parts \in DOMAIN fs'
               /\ fs'[path.parts].kind = "file"
               /\ fs' = (path.parts :> fs'[path.parts]) @@ fs
       ELSE fs' = fs]_vars

\* p.html and p_ok.html, both written: p_ok.html was there, so p.html went to
\* p_ok_2.html, and p_ok.html to p_ok_ok.html; the documents are as they were
C16_Witness ==
    /\ pc = "done"
    /\ html_files = <<Doc1, Doc2>>
    /\ Len(results) = 2
    /\ results[1].ok /\ results[2].ok
    /\ results[1].path = Candidate(Doc1, 2)
    /\ results[2].path = Candidate(Doc2, 1)
    /\ fs[Doc1.parts] = BatchFS[Doc1.parts]
    /\ fs[Doc2.parts] = BatchFS[Doc2.parts]
    /\ Cardinality(DOMAIN fs) = Cardinality(DOMAIN BatchFS) + 2

====
